---------------------------- MODULE Spec2Model ----------------------------
(***************************************************************************)
(* State-machine model of the nexus-indexer proof registry (the            *)
(* ZKProofRegistry contract) and of the client-side confirmation tracker   *)
(* (BlockchainManager and the TransactionStatus view).                     *)
(*                                                                         *)
(* Spec         the registry: contract storage `reg`, one action per       *)
(*              external call, each call a whole transaction (committed    *)
(*              or reverted), with its receipt in `lastTx`.                *)
(* TrackerSpec  the tracker: the status map, the monitor tasks with their  *)
(*              suspension points, and the ledger they poll.               *)
(***************************************************************************)
EXTENDS Integers, Sequences, FiniteSets, TLC

VARIABLES reg, blockTimestamp, lastTx,
          pendingTransactions, provider, contract, txs, blockNumber, monitors

regVars == <<reg, blockTimestamp, lastTx>>
trackerVars == <<pendingTransactions, provider, contract, txs, blockNumber, monitors>>
vars == <<reg, blockTimestamp, lastTx,
          pendingTransactions, provider, contract, txs, blockNumber, monitors>>

(***************************************************************************)
(* Bounds of the model.                                                    *)
(***************************************************************************)
MaxProofs == 2
MaxTime == 2
MaxHeight == 3

(***************************************************************************)
(* Inputs.  Accounts are externally owned; Owner is the deployer, which    *)
(* Ownable makes the contract owner.  Strings and byte strings are         *)
(* sequences over a one-letter alphabet, the empty one included.           *)
(***************************************************************************)
Owner == "owner"
Addresses == {"owner", "alice"}
EventIds == {<<>>, <<"a">>, <<"a", "a">>}
ProofDatas == {<<>>, <<"a">>}
ImageUris == {"", "img1"}
\* The events the owner publishes metadata for; the others never have any.
MetadataEventIds == {<<"a">>}

\* ProofMetadata: the value of an unset mapping slot is all-zero.
NoMetadata ==
    [eventName |-> "", eventDescription |-> "", imageUri |-> "",
     location |-> "", eventDate |-> 0]

MetadataInputs ==
    {[eventName |-> "n", eventDescription |-> "d", imageUri |-> u,
      location |-> "l", eventDate |-> 1] : u \in ImageUris}

(***************************************************************************)
(* Commitment hash.  abi.encodePacked concatenates the two dynamic         *)
(* arguments without length prefixes and appends the fixed-width sender    *)
(* and timestamp; keccak256 is taken collision-free on the packed bytes.   *)
(***************************************************************************)
encodePacked(eventId, proofData, sender, timestamp) ==
    [dyn |-> eventId \o proofData, sender |-> sender, timestamp |-> timestamp]

keccak256(bytes) == [keccak |-> bytes]

Commitment_NoTimestamp(eventId, proofData, sender, timestamp) ==
    keccak256(encodePacked(eventId, proofData, sender, 0))

Commitment(eventId, proofData, sender, timestamp) ==
    keccak256(encodePacked(eventId, proofData, sender, timestamp))

(***************************************************************************)
(* Contract storage after construction.                                    *)
(***************************************************************************)
RegInit ==
    [tokenIdCounter |-> 0,
     proofCounter |-> 0,
     proofCommitments |-> <<>>,
     commitmentToProofId |-> <<>>,
     eventMetadata |-> <<>>,
     userProofs |-> <<>>,
     eventProofs |-> <<>>,
     owners |-> <<>>,
     tokenURIs |-> <<>>]

\* A Solidity mapping holds the keys written so far; any other key reads
\* the zero value of the value type.
Read(map, key, zero) == IF key \in DOMAIN map THEN map[key] ELSE zero

Write(map, key, value) ==
    [k \in DOMAIN map \cup {key} |-> IF k = key THEN value ELSE map[k]]

CommitmentToProofId(R, c) == Read(R.commitmentToProofId, c, 0)
EventMetadata(R, eventId) == Read(R.eventMetadata, eventId, NoMetadata)
UserProofs(R, user) == Read(R.userProofs, user, <<>>)

EventProofs_Overwritten(R, eventId) == <<>>

EventProofs(R, eventId) == Read(R.eventProofs, eventId, <<>>)

\* The outcome of a call: the storage after it, "ok" or the revert reason,
\* the returned value and the events of the receipt.
Reverted_ConsumesId(R, reason) ==
    [reg |-> [R EXCEPT !.proofCounter = @ + 1],
     result |-> reason, ret |-> 0, logs |-> <<>>]

Reverted(R, reason) == [reg |-> R, result |-> reason, ret |-> 0, logs |-> <<>>]

(***************************************************************************)
(* _mintNFT: allocate the next token id, bind it to the proof, mint the    *)
(* token to the recipient, copy the event's image reference if it has one. *)
(* _safeMint reverts when the token already exists.                        *)
(***************************************************************************)
mintNFT_NoBind(R, proofId, recipient, eventId) ==
    LET tokenId == R.tokenIdCounter + 1
        metadata == EventMetadata(R, eventId)
    IN  IF tokenId \in DOMAIN R.owners
        THEN Reverted(R, "ERC721: token already minted")
        ELSE [reg |-> [R EXCEPT
                        !.tokenIdCounter = tokenId,
                        !.owners = Append(@, recipient),
                        !.tokenURIs = Append(@, IF Len(metadata.imageUri) > 0
                                                 THEN metadata.imageUri ELSE "")],
              result |-> "ok",
              ret |-> tokenId,
              logs |-> <<[event |-> "NFTMinted", tokenId |-> tokenId,
                          proofId |-> proofId, recipient |-> recipient,
                          eventId |-> eventId]>>]

mintNFT_NoEvent(R, proofId, recipient, eventId) ==
    LET tokenId == R.tokenIdCounter + 1
        metadata == EventMetadata(R, eventId)
    IN  IF tokenId \in DOMAIN R.owners
        THEN Reverted(R, "ERC721: token already minted")
        ELSE [reg |-> [R EXCEPT
                        !.tokenIdCounter = tokenId,
                        !.proofCommitments[proofId].nftTokenId = tokenId,
                        !.owners = Append(@, recipient),
                        !.tokenURIs = Append(@, IF Len(metadata.imageUri) > 0
                                                 THEN metadata.imageUri ELSE "")],
              result |-> "ok",
              ret |-> tokenId,
              logs |-> <<>>]

mintNFT_ToOwner(R, proofId, recipient, eventId) ==
    LET tokenId == R.tokenIdCounter + 1
        metadata == EventMetadata(R, eventId)
    IN  IF tokenId \in DOMAIN R.owners
        THEN Reverted(R, "ERC721: token already minted")
        ELSE [reg |-> [R EXCEPT
                        !.tokenIdCounter = tokenId,
                        !.proofCommitments[proofId].nftTokenId = tokenId,
                        !.owners = Append(@, Owner),
                        !.tokenURIs = Append(@, IF Len(metadata.imageUri) > 0
                                                 THEN metadata.imageUri ELSE "")],
              result |-> "ok",
              ret |-> tokenId,
              logs |-> <<[event |-> "NFTMinted", tokenId |-> tokenId,
                          proofId |-> proofId, recipient |-> recipient,
                          eventId |-> eventId]>>]

mintNFT(R, proofId, recipient, eventId) ==
    LET tokenId == R.tokenIdCounter + 1
        metadata == EventMetadata(R, eventId)
    IN  IF tokenId \in DOMAIN R.owners
        THEN Reverted(R, "ERC721: token already minted")
        ELSE [reg |-> [R EXCEPT
                        !.tokenIdCounter = tokenId,
                        !.proofCommitments[proofId].nftTokenId = tokenId,
                        !.owners = Append(@, recipient),
                        !.tokenURIs = Append(@, IF Len(metadata.imageUri) > 0
                                                 THEN metadata.imageUri ELSE "")],
              result |-> "ok",
              ret |-> tokenId,
              logs |-> <<[event |-> "NFTMinted", tokenId |-> tokenId,
                          proofId |-> proofId, recipient |-> recipient,
                          eventId |-> eventId]>>]

(***************************************************************************)
(* submitProof(eventId, proofData) sent by `sender` in a block stamped     *)
(* `timestamp`.                                                            *)
(***************************************************************************)
submitProof_NoDupCheck(R, sender, timestamp, eventId, proofData) ==
    LET commitment == Commitment(eventId, proofData, sender, timestamp)
        proofId == R.proofCounter + 1
        stored == [R EXCEPT
                    !.proofCounter = proofId,
                    !.proofCommitments = Append(@,
                        [commitment |-> commitment, eventId |-> eventId,
                         submitter |-> sender, timestamp |-> timestamp,
                         isValid |-> TRUE, nftTokenId |-> 0]),
                    !.commitmentToProofId = Write(@, commitment, proofId),
                    !.userProofs =
                        Write(@, sender, Append(UserProofs(R, sender), proofId)),
                    !.eventProofs =
                        Write(@, eventId, Append(EventProofs(R, eventId), proofId))]
        minted == mintNFT(stored, proofId, sender, eventId)
    IN  IF Len(eventId) = 0 THEN Reverted(R, "Event ID cannot be empty")
        ELSE IF Len(proofData) = 0 THEN Reverted(R, "Proof data cannot be empty")
        ELSE IF minted.result # "ok" THEN Reverted(R, minted.result)
        ELSE [reg |-> minted.reg, result |-> "ok", ret |-> proofId,
              logs |-> <<[event |-> "ProofSubmitted", proofId |-> proofId,
                          commitment |-> commitment, eventId |-> eventId,
                          submitter |-> sender]>> \o minted.logs]

submitProof_AcceptsEmpty(R, sender, timestamp, eventId, proofData) ==
    LET commitment == Commitment(eventId, proofData, sender, timestamp)
        proofId == R.proofCounter + 1
        stored == [R EXCEPT
                    !.proofCounter = proofId,
                    !.proofCommitments = Append(@,
                        [commitment |-> commitment, eventId |-> eventId,
                         submitter |-> sender, timestamp |-> timestamp,
                         isValid |-> TRUE, nftTokenId |-> 0]),
                    !.commitmentToProofId = Write(@, commitment, proofId),
                    !.userProofs =
                        Write(@, sender, Append(UserProofs(R, sender), proofId)),
                    !.eventProofs =
                        Write(@, eventId, Append(EventProofs(R, eventId), proofId))]
        minted == mintNFT(stored, proofId, sender, eventId)
    IN  IF CommitmentToProofId(R, commitment) # 0
        THEN Reverted(R, "Proof already submitted")
        ELSE IF minted.result # "ok" THEN Reverted(R, minted.result)
        ELSE [reg |-> minted.reg, result |-> "ok", ret |-> proofId,
              logs |-> <<[event |-> "ProofSubmitted", proofId |-> proofId,
                          commitment |-> commitment, eventId |-> eventId,
                          submitter |-> sender]>> \o minted.logs]

submitProof(R, sender, timestamp, eventId, proofData) ==
    LET commitment == Commitment(eventId, proofData, sender, timestamp)
        proofId == R.proofCounter + 1
        stored == [R EXCEPT
                    !.proofCounter = proofId,
                    !.proofCommitments = Append(@,
                        [commitment |-> commitment, eventId |-> eventId,
                         submitter |-> sender, timestamp |-> timestamp,
                         isValid |-> TRUE, nftTokenId |-> 0]),
                    !.commitmentToProofId = Write(@, commitment, proofId),
                    !.userProofs =
                        Write(@, sender, Append(UserProofs(R, sender), proofId)),
                    !.eventProofs =
                        Write(@, eventId, Append(EventProofs(R, eventId), proofId))]
        minted == IF stored.proofCommitments[proofId].isValid
                  THEN mintNFT(stored, proofId, sender, eventId)
                  ELSE [reg |-> stored, result |-> "ok", ret |-> 0, logs |-> <<>>]
    IN  IF Len(eventId) = 0 THEN Reverted(R, "Event ID cannot be empty")
        ELSE IF Len(proofData) = 0 THEN Reverted(R, "Proof data cannot be empty")
        ELSE IF CommitmentToProofId(R, commitment) # 0
             THEN Reverted(R, "Proof already submitted")
        ELSE IF minted.result # "ok" THEN Reverted(R, minted.result)
        ELSE [reg |-> minted.reg, result |-> "ok", ret |-> proofId,
              logs |-> <<[event |-> "ProofSubmitted", proofId |-> proofId,
                          commitment |-> commitment, eventId |-> eventId,
                          submitter |-> sender]>> \o minted.logs]

(***************************************************************************)
(* setEventMetadata: owner only, overwrites the event's metadata.          *)
(***************************************************************************)
setEventMetadata_Retroactive(R, sender, eventId, metadata) ==
    IF sender # Owner THEN Reverted(R, "Ownable: caller is not the owner")
    ELSE [reg |-> [R EXCEPT
                    !.eventMetadata = Write(@, eventId, metadata),
                    !.tokenURIs = [t \in DOMAIN @ |-> metadata.imageUri]],
          result |-> "ok", ret |-> 0,
          logs |-> <<[event |-> "EventMetadataSet", eventId |-> eventId,
                      eventName |-> metadata.eventName,
                      imageUri |-> metadata.imageUri]>>]

setEventMetadata_Anyone(R, sender, eventId, metadata) ==
    [reg |-> [R EXCEPT !.eventMetadata = Write(@, eventId, metadata)],
     result |-> "ok", ret |-> 0,
     logs |-> <<[event |-> "EventMetadataSet", eventId |-> eventId,
                 eventName |-> metadata.eventName,
                 imageUri |-> metadata.imageUri]>>]

setEventMetadata(R, sender, eventId, metadata) ==
    IF sender # Owner THEN Reverted(R, "Ownable: caller is not the owner")
    ELSE [reg |-> [R EXCEPT !.eventMetadata = Write(@, eventId, metadata)],
          result |-> "ok", ret |-> 0,
          logs |-> <<[event |-> "EventMetadataSet", eventId |-> eventId,
                      eventName |-> metadata.eventName,
                      imageUri |-> metadata.imageUri]>>]

(***************************************************************************)
(* validateProof: owner only; sets the flag and mints when the proof is    *)
(* now valid and has no token.                                             *)
(***************************************************************************)
validateProof_AlwaysMint(R, sender, proofId, isValid) ==
    LET flagged == [R EXCEPT !.proofCommitments[proofId].isValid = isValid]
        validated == <<[event |-> "ProofValidated", proofId |-> proofId,
                        isValid |-> isValid]>>
        minted == mintNFT(flagged, proofId,
                          flagged.proofCommitments[proofId].submitter,
                          flagged.proofCommitments[proofId].eventId)
    IN  IF sender # Owner THEN Reverted(R, "Ownable: caller is not the owner")
        ELSE IF ~(proofId > 0 /\ proofId <= R.proofCounter)
             THEN Reverted(R, "Invalid proof ID")
        ELSE IF isValid
             THEN [reg |-> minted.reg, result |-> "ok", ret |-> 0,
                   logs |-> validated \o minted.logs]
        ELSE [reg |-> flagged, result |-> "ok", ret |-> 0, logs |-> validated]

validateProof_Unmint(R, sender, proofId, isValid) ==
    LET flagged == [R EXCEPT !.proofCommitments[proofId].isValid = isValid]
        validated == <<[event |-> "ProofValidated", proofId |-> proofId,
                        isValid |-> isValid]>>
    IN  IF sender # Owner THEN Reverted(R, "Ownable: caller is not the owner")
        ELSE IF ~(proofId > 0 /\ proofId <= R.proofCounter)
             THEN Reverted(R, "Invalid proof ID")
        ELSE IF isValid /\ flagged.proofCommitments[proofId].nftTokenId = 0
             THEN LET minted == mintNFT(flagged, proofId,
                                    flagged.proofCommitments[proofId].submitter,
                                    flagged.proofCommitments[proofId].eventId)
                  IN  IF minted.result # "ok" THEN Reverted(R, minted.result)
                      ELSE [reg |-> minted.reg, result |-> "ok", ret |-> 0,
                            logs |-> validated \o minted.logs]
        ELSE IF isValid
             THEN [reg |-> flagged, result |-> "ok", ret |-> 0, logs |-> validated]
        ELSE [reg |-> [flagged EXCEPT !.proofCommitments[proofId].nftTokenId = 0],
              result |-> "ok", ret |-> 0, logs |-> validated]

validateProof(R, sender, proofId, isValid) ==
    LET flagged == [R EXCEPT !.proofCommitments[proofId].isValid = isValid]
        validated == <<[event |-> "ProofValidated", proofId |-> proofId,
                        isValid |-> isValid]>>
    IN  IF sender # Owner THEN Reverted(R, "Ownable: caller is not the owner")
        ELSE IF ~(proofId > 0 /\ proofId <= R.proofCounter)
             THEN Reverted(R, "Invalid proof ID")
        ELSE IF isValid /\ flagged.proofCommitments[proofId].nftTokenId = 0
             THEN LET minted == mintNFT(flagged, proofId,
                                    flagged.proofCommitments[proofId].submitter,
                                    flagged.proofCommitments[proofId].eventId)
                  IN  IF minted.result # "ok" THEN Reverted(R, minted.result)
                      ELSE [reg |-> minted.reg, result |-> "ok", ret |-> 0,
                            logs |-> validated \o minted.logs]
        ELSE [reg |-> flagged, result |-> "ok", ret |-> 0, logs |-> validated]

(***************************************************************************)
(* getProof: the fields of a stored record; a view, it changes nothing.    *)
(***************************************************************************)
\* The value of an unset proofCommitments slot.
NoProof ==
    [commitment |-> 0, eventId |-> <<>>, submitter |-> 0, timestamp |-> 0,
     isValid |-> FALSE, nftTokenId |-> 0]

getProof_NoRange(R, proofId) ==
    [result |-> "ok", ret |-> Read(R.proofCommitments, proofId, NoProof)]

getProof(R, proofId) ==
    IF ~(proofId > 0 /\ proofId <= R.proofCounter)
    THEN [result |-> "Invalid proof ID", ret |-> NoProof]
    ELSE [result |-> "ok", ret |-> R.proofCommitments[proofId]]

(***************************************************************************)
(* hasValidProofForEvent: scan the user's proof ids for a record of the    *)
(* event (compared by hash) whose flag is set.                             *)
(***************************************************************************)
hasValidProofForEvent_IgnoresFlag(R, user, eventId) ==
    LET userProofIds == UserProofs(R, user)
    IN  \E i \in 1 .. Len(userProofIds) :
            LET proof == Read(R.proofCommitments, userProofIds[i], NoProof)
            IN  keccak256(proof.eventId) = keccak256(eventId)

hasValidProofForEvent(R, user, eventId) ==
    LET userProofIds == UserProofs(R, user)
    IN  \E i \in 1 .. Len(userProofIds) :
            LET proof == Read(R.proofCommitments, userProofIds[i], NoProof)
            IN  keccak256(proof.eventId) = keccak256(eventId) /\ proof.isValid

\* The remaining views.
getUserProofs(R, user) == UserProofs(R, user)
getEventProofs(R, eventId) == EventProofs(R, eventId)
getTotalProofs(R) == R.proofCounter
getTotalNFTs(R) == R.tokenIdCounter

(***************************************************************************)
(* Registry transactions.  The ledger applies one transaction at a time;   *)
(* each either commits its storage changes or reverts all of them.         *)
(* lastTx records the last transaction: the call, the storage it ran on,   *)
(* "ok" or the revert reason, and the events of its receipt.               *)
(* blockTimestamp is the timestamp of the latest block that changed the    *)
(* storage; a transaction is included in that block or in a later one.     *)
(***************************************************************************)
NoTx ==
    [op |-> "none", proofId |-> 0, result |-> "ok", logs |-> <<>>,
     before |-> RegInit]

\* proofId: the proof a committed call created or changed, 0 otherwise.
Receipt(op, proofId, out) ==
    [op |-> op, proofId |-> IF out.result = "ok" THEN proofId ELSE 0,
     result |-> out.result, logs |-> out.logs, before |-> reg]

\* A call that fails a require reverts before it reads the arguments the
\* require does not mention, so one value of those is tried.
SubmitProof ==
    \E eventId \in EventIds :
    \E proofData \in IF eventId = <<>> THEN {<<"a">>} ELSE ProofDatas :
    \E sender \in IF <<>> \in {eventId, proofData} THEN {Owner} ELSE Addresses,
       timestamp \in IF <<>> \in {eventId, proofData} THEN {blockTimestamp}
                     ELSE {blockTimestamp, blockTimestamp + 1} :
        LET out == submitProof(reg, sender, timestamp, eventId, proofData)
        IN  /\ timestamp <= MaxTime
            /\ out.result = "ok" => reg.proofCounter < MaxProofs
            /\ reg' = out.reg
            /\ blockTimestamp' = IF out.result = "ok" THEN timestamp
                                 ELSE blockTimestamp
            /\ lastTx' = Receipt("submitProof", out.ret, out)
            /\ UNCHANGED trackerVars

ValidateProof ==
    \E sender \in Addresses :
    \E proofId \in IF sender = Owner THEN 0 .. reg.proofCounter + 1 ELSE {1},
       isValid \in IF sender = Owner THEN BOOLEAN ELSE {TRUE} :
        LET out == validateProof(reg, sender, proofId, isValid)
        IN  /\ reg' = out.reg
            /\ lastTx' = Receipt("validateProof", proofId, out)
            /\ UNCHANGED <<blockTimestamp, trackerVars>>

SetEventMetadata ==
    \E sender \in Addresses, eventId \in MetadataEventIds :
    \E metadata \in IF sender = Owner THEN MetadataInputs
                    ELSE {CHOOSE m \in MetadataInputs : TRUE} :
        LET out == setEventMetadata(reg, sender, eventId, metadata)
        IN  /\ reg' = out.reg
            /\ lastTx' = Receipt("setEventMetadata", 0, out)
            /\ UNCHANGED <<blockTimestamp, trackerVars>>

(***************************************************************************)
(* The confirmation tracker.                                               *)
(*                                                                         *)
(* txs is the ledger's view of the broadcast transactions: in the mempool  *)
(* or included in a block with an execution status (1 success, 0 revert).  *)
(* blockNumber is the ledger's height.  pendingTransactions is the static  *)
(* status map of BlockchainManager.  monitors holds, for each handle, the  *)
(* position of the monitorTransaction call started by                      *)
(* submitProofToBlockchain ("submit") and of the one awaited by the status *)
(* view's refreshStatus ("view"); "idle" is no call in progress.           *)
(***************************************************************************)
Handles == {"0xa", "0xb"}
Callers == {"submit", "view"}

GasUsed == "21000"
GasPrice == "1"

Absent == <<>>

PendingStatus_Counted(txHash) ==
    [hash |-> txHash, status |-> "pending", confirmations |-> 1]

\* The status submitProofToBlockchain stores after the broadcast.
PendingStatus(txHash) ==
    [hash |-> txHash, status |-> "pending", confirmations |-> 0]

FailedStatus_Dropped(txHash) == Absent

FailedStatus_LeftPending(txHash) ==
    [hash |-> txHash, status |-> "pending", confirmations |-> 0]

\* The status the catch block of monitorTransaction stores.
FailedStatus(txHash) ==
    [hash |-> txHash, status |-> "failed", confirmations |-> 0]

\* The status monitorTransaction builds from a receipt and the height read
\* after it.
ReceiptStatus_NoPlusOne(txHash, receipt, height) ==
    [hash |-> txHash,
     status |-> IF receipt.status = 1 THEN "confirmed" ELSE "failed",
     confirmations |-> height - receipt.blockNumber,
     gasUsed |-> GasUsed,
     effectiveGasPrice |-> GasPrice,
     blockNumber |-> receipt.blockNumber]

ReceiptStatus_OffByTwo(txHash, receipt, height) ==
    [hash |-> txHash,
     status |-> IF receipt.status = 1 THEN "confirmed" ELSE "failed",
     confirmations |-> height - (receipt.blockNumber + 1),
     gasUsed |-> GasUsed,
     effectiveGasPrice |-> GasPrice,
     blockNumber |-> receipt.blockNumber]

ReceiptStatus_Partial(txHash, receipt, height) ==
    [hash |-> txHash,
     status |-> IF receipt.status = 1 THEN "confirmed" ELSE "failed",
     confirmations |-> 0]

ReceiptStatus(txHash, receipt, height) ==
    [hash |-> txHash,
     status |-> IF receipt.status = 1 THEN "confirmed" ELSE "failed",
     confirmations |-> height - receipt.blockNumber + 1,
     gasUsed |-> GasUsed,
     effectiveGasPrice |-> GasPrice,
     blockNumber |-> receipt.blockNumber]

\* getTransactionStatus: the stored status, or null (Absent).
getTransactionStatus(txHash) ==
    IF txHash \in DOMAIN pendingTransactions
    THEN pendingTransactions[txHash] ELSE Absent

\* getAllPendingTransactions
getAllPendingTransactions ==
    {pendingTransactions[h] : h \in {k \in DOMAIN pendingTransactions :
                                        pendingTransactions[k].status = "pending"}}

Included(h) == h \in DOMAIN txs /\ txs[h].state = "included"

\* The synchronous head of monitorTransaction: without a provider it
\* returns at once, otherwise it issues getTransaction and suspends.
MonitorStart == IF provider' THEN "getTransaction" ELSE "idle"

(***************************************************************************)
(* submitProofToBlockchain, broadcast accepted: the ledger holds the       *)
(* transaction under a fresh hash, the status map gets a pending entry     *)
(* and the monitor is started, not awaited.                                *)
(***************************************************************************)
SubmitProofToBlockchain(h) ==
    /\ h \notin DOMAIN txs
    /\ provider' = TRUE
    /\ contract' = TRUE
    /\ txs' = Write(txs, h, [kind |-> "proof", state |-> "mempool"])
    /\ pendingTransactions' = Write(pendingTransactions, h, PendingStatus(h))
    /\ monitors' = [monitors EXCEPT ![h]["submit"] = MonitorStart]
    /\ UNCHANGED <<blockNumber, regVars>>

SubmitProofToBlockchainFails_Registers ==
    \E h \in Handles \ DOMAIN txs :
        /\ provider' = TRUE
        /\ contract' = TRUE
        /\ pendingTransactions' = Write(pendingTransactions, h, PendingStatus(h))
        /\ monitors' = [monitors EXCEPT ![h]["submit"] = MonitorStart]
        /\ UNCHANGED <<txs, blockNumber, regVars>>

\* submitProofToBlockchain, wallet connected but gas estimation or the send
\* rejected: the error is rethrown, nothing is registered.
SubmitProofToBlockchainFails ==
    /\ provider' = TRUE
    /\ contract' = TRUE
    /\ UNCHANGED <<pendingTransactions, txs, blockNumber, monitors, regVars>>

SubmitGroupProofToBlockchain_Registers(h) ==
    /\ h \notin DOMAIN txs
    /\ provider' = TRUE
    /\ contract' = TRUE
    /\ txs' = Write(txs, h, [kind |-> "group", state |-> "mempool"])
    /\ pendingTransactions' = Write(pendingTransactions, h, PendingStatus(h))
    /\ monitors' = [monitors EXCEPT ![h]["submit"] = MonitorStart]
    /\ UNCHANGED <<blockNumber, regVars>>

\* submitGroupProofToBlockchain: broadcasts and returns the hash.
SubmitGroupProofToBlockchain(h) ==
    /\ h \notin DOMAIN txs
    /\ provider' = TRUE
    /\ contract' = TRUE
    /\ txs' = Write(txs, h, [kind |-> "group", state |-> "mempool"])
    /\ UNCHANGED <<pendingTransactions, blockNumber, monitors, regVars>>

(***************************************************************************)
(* refreshStatus of the status view of h.  The view renders its button     *)
(* only when it found a status for h, and disables it while a refresh is   *)
(* in progress.                                                            *)
(***************************************************************************)
RefreshStatus(h) ==
    /\ h \in DOMAIN txs
    /\ txs[h].kind = "proof"
    /\ monitors[h]["view"] = "idle"
    /\ provider' = provider
    /\ monitors' = [monitors EXCEPT ![h]["view"] = MonitorStart]
    /\ UNCHANGED <<pendingTransactions, contract, txs, blockNumber, regVars>>

(***************************************************************************)
(* The suspension points of monitorTransaction, for the call of caller c   *)
(* on handle h.                                                            *)
(***************************************************************************)
\* provider.getTransaction resolves with the transaction.
GetTransactionFound(h, c) ==
    /\ monitors[h][c] = "getTransaction"
    /\ monitors' = [monitors EXCEPT ![h][c] = "wait"]
    /\ UNCHANGED <<pendingTransactions, provider, contract, txs, blockNumber, regVars>>

\* provider.getTransaction resolves with null (the node does not know the
\* transaction yet): monitorTransaction returns.
GetTransactionNull(h, c) ==
    /\ monitors[h][c] = "getTransaction"
    /\ ~Included(h)
    /\ monitors' = [monitors EXCEPT ![h][c] = "idle"]
    /\ UNCHANGED <<pendingTransactions, provider, contract, txs, blockNumber, regVars>>

\* tx.wait() resolves with the receipt once the transaction is included.
WaitReceipt(h, c) ==
    /\ monitors[h][c] = "wait"
    /\ Included(h)
    /\ monitors' = [monitors EXCEPT ![h][c] = "getBlockNumber"]
    /\ UNCHANGED <<pendingTransactions, provider, contract, txs, blockNumber, regVars>>

\* provider.getBlockNumber resolves: the status is built and stored; a
\* successful receipt goes on to query the mint events.
GetBlockNumber(h, c) ==
    /\ monitors[h][c] = "getBlockNumber"
    /\ pendingTransactions' =
           Write(pendingTransactions, h, ReceiptStatus(h, txs[h], blockNumber))
    /\ monitors' = [monitors EXCEPT ![h][c] =
                       IF txs[h].status = 1 /\ contract THEN "queryFilter" ELSE "idle"]
    /\ UNCHANGED <<provider, contract, txs, blockNumber, regVars>>

\* contract.queryFilter resolves: the mint events of the block are logged.
QueryFilter(h, c) ==
    /\ monitors[h][c] = "queryFilter"
    /\ monitors' = [monitors EXCEPT ![h][c] = "idle"]
    /\ UNCHANGED <<pendingTransactions, provider, contract, txs, blockNumber, regVars>>

\* An awaited ledger call rejects (node unreachable, or tx.wait() raising on
\* a reverted transaction): the catch block stores a failed status.
MonitorCatch(h, c) ==
    /\ monitors[h][c] \in {"getTransaction", "wait", "getBlockNumber", "queryFilter"}
    /\ pendingTransactions' = Write(pendingTransactions, h, FailedStatus(h))
    /\ monitors' = [monitors EXCEPT ![h][c] = "idle"]
    /\ UNCHANGED <<provider, contract, txs, blockNumber, regVars>>

\* clearTransactionHistory
ClearTransactionHistory ==
    /\ pendingTransactions' = <<>>
    /\ UNCHANGED <<provider, contract, txs, blockNumber, monitors, regVars>>

(***************************************************************************)
(* The ledger: a new block, which may include one broadcast transaction    *)
(* with either execution status.  Every broadcast is a submitProof call,   *)
(* which on success mints the next token and emits NFTMinted with its id;  *)
(* tokenId is the id in the receipt's log, 0 when the call reverted.       *)
(***************************************************************************)
MintedSoFar ==
    Cardinality({k \in DOMAIN txs : txs[k].state = "included" /\ txs[k].status = 1})

IncludeTx(h, status) ==
    /\ blockNumber < MaxHeight
    /\ h \in DOMAIN txs
    /\ txs[h].state = "mempool"
    /\ blockNumber' = blockNumber + 1
    /\ txs' = [txs EXCEPT ![h] = [kind |-> @.kind, state |-> "included",
                                  status |-> status,
                                  blockNumber |-> blockNumber + 1,
                                  tokenId |-> IF status = 1
                                              THEN MintedSoFar + 1 ELSE 0]]
    /\ UNCHANGED <<pendingTransactions, provider, contract, monitors, regVars>>

EmptyBlock ==
    /\ blockNumber < MaxHeight
    /\ blockNumber' = blockNumber + 1
    /\ UNCHANGED <<pendingTransactions, provider, contract, txs, monitors, regVars>>

TrackerIdle ==
    /\ pendingTransactions = <<>>
    /\ provider = FALSE
    /\ contract = FALSE
    /\ txs = <<>>
    /\ blockNumber = 1
    /\ monitors = [h \in Handles |-> [c \in Callers |-> "idle"]]

Init ==
    /\ reg = RegInit
    /\ blockTimestamp = 1
    /\ lastTx = NoTx
    /\ TrackerIdle

Next ==
    \/ SubmitProof
    \/ ValidateProof
    \/ SetEventMetadata

Spec == Init /\ [][Next]_vars

TrackerNext ==
    \/ \E h \in Handles : SubmitProofToBlockchain(h)
    \/ SubmitProofToBlockchainFails
    \/ \E h \in Handles : SubmitGroupProofToBlockchain(h)
    \/ \E h \in Handles : RefreshStatus(h)
    \/ \E h \in Handles, c \in Callers : GetTransactionFound(h, c)
    \/ \E h \in Handles, c \in Callers : GetTransactionNull(h, c)
    \/ \E h \in Handles, c \in Callers : WaitReceipt(h, c)
    \/ \E h \in Handles, c \in Callers : GetBlockNumber(h, c)
    \/ \E h \in Handles, c \in Callers : QueryFilter(h, c)
    \/ \E h \in Handles, c \in Callers : MonitorCatch(h, c)
    \/ ClearTransactionHistory
    \/ \E h \in Handles, status \in {0, 1} : IncludeTx(h, status)
    \/ EmptyBlock

TrackerSpec == Init /\ [][TrackerNext]_vars

(***************************************************************************)
(* The tracker left to itself: after submitProofToBlockchain has started   *)
(* the monitor nobody refreshes or clears, and no ledger call rejects.     *)
(* An awaited ledger call that can resolve does resolve; tx.wait() has no  *)
(* timeout argument and resolves only on inclusion, and the ledger is not  *)
(* bound to include anything.                                              *)
(***************************************************************************)
MonitorStep(h, c) ==
    \/ GetTransactionFound(h, c)
    \/ GetTransactionNull(h, c)
    \/ WaitReceipt(h, c)
    \/ GetBlockNumber(h, c)
    \/ QueryFilter(h, c)

UnattendedNext ==
    \/ \E h \in Handles : SubmitProofToBlockchain(h)
    \/ SubmitProofToBlockchainFails
    \/ \E h \in Handles : SubmitGroupProofToBlockchain(h)
    \/ \E h \in Handles, c \in Callers : MonitorStep(h, c)
    \/ \E h \in Handles, status \in {0, 1} : IncludeTx(h, status)
    \/ EmptyBlock

UnattendedSpec ==
    /\ Init
    /\ [][UnattendedNext]_vars
    /\ \A h \in Handles, c \in Callers : WF_vars(MonitorStep(h, c))

(***************************************************************************)
(* Properties of the registry, checked under Spec.                         *)
(***************************************************************************)
Proofs == reg.proofCommitments
ProofIds == DOMAIN reg.proofCommitments
TokenIds == DOMAIN reg.owners

\* The storage the last transaction ran on.
Before == lastTx.before

\* The last transaction is a committed validateProof of proof p.
Validated(p) ==
    lastTx.op = "validateProof" /\ lastTx.result = "ok" /\ lastTx.proofId = p

\* The claims about what a call would do are stated over the storage: for
\* every reachable storage and every call of the input sets.  A reverted
\* transaction leaves the storage as it is and a stranger's validateProof is
\* always possible and always reverts, so every reachable storage is also
\* the storage of a state whose last transaction is that reverted call; the
\* outcomes of the calls are evaluated in those states, once per storage
\* instead of once per storage and receipt.
EveryStorage ==
    lastTx.op = "validateProof"
        /\ lastTx.result = "Ownable: caller is not the owner"

SubmitCalls ==
    [sender : Addresses, eventId : EventIds \ {<<>>}, proofData : ProofDatas \ {<<>>}]

CommitmentOf(call) ==
    Commitment(call.eventId, call.proofData, call.sender, blockTimestamp)

Apply(R, call) ==
    submitProof(R, call.sender, blockTimestamp, call.eventId, call.proofData)

Stored(c) == \E p \in ProofIds : Proofs[p].commitment = c

\* C1: no two stored proof records have the same commitment, and a
\* submitProof whose commitment is already stored is rejected with "Proof
\* already submitted" and leaves the storage, so the number of records, as
\* it was.
C1_UniqueCommitment ==
    /\ \A p, q \in ProofIds :
           Proofs[p].commitment = Proofs[q].commitment => p = q
    /\ \A call \in SubmitCalls :
           (EveryStorage /\ Stored(CommitmentOf(call))) =>
               /\ Apply(reg, call).result = "Proof already submitted"
               /\ Apply(reg, call).reg = reg
               /\ Cardinality({p \in ProofIds :
                                 Proofs[p].commitment = CommitmentOf(call)}) = 1

C1_Witness ==
    /\ lastTx.op = "submitProof"
    /\ lastTx.result = "Proof already submitted"
    /\ Len(Proofs) = 2

\* C2 as stated: a credential exists if and only if some proof record has
\* valid = true and its credentialId set to that credential, one-to-one.
C2_CredentialIffValidRecord ==
    /\ \A t \in TokenIds :
           \E p \in ProofIds : Proofs[p].isValid /\ Proofs[p].nftTokenId = t
    /\ \A p \in ProofIds :
           (Proofs[p].isValid /\ Proofs[p].nftTokenId # 0)
               => Proofs[p].nftTokenId \in TokenIds
    /\ \A p, q \in ProofIds :
           (Proofs[p].nftTokenId # 0 /\ Proofs[p].nftTokenId = Proofs[q].nftTokenId)
               => p = q

CredentialBinding ==
    /\ \A t \in TokenIds :
           Cardinality({p \in ProofIds : Proofs[p].nftTokenId = t}) = 1
    /\ \A p \in ProofIds :
           Proofs[p].nftTokenId # 0 => Proofs[p].nftTokenId \in TokenIds
    /\ \A p \in ProofIds :
           (Proofs[p].isValid /\ Proofs[p].nftTokenId # 0)
               => Proofs[p].nftTokenId \in TokenIds

\* What the last transaction left of the bindings it found.
NeverReassigned ==
    /\ \A p \in DOMAIN Before.proofCommitments :
           Before.proofCommitments[p].nftTokenId # 0 =>
               /\ p \in ProofIds
               /\ Proofs[p].nftTokenId = Before.proofCommitments[p].nftTokenId
    /\ \A t \in DOMAIN Before.owners :
           t \in TokenIds /\ reg.owners[t] = Before.owners[t]

\* C2 (amended): a credential exists if and only if some proof record has
\* its credentialId set to that credential, whatever the record's valid flag
\* is now; the binding is one-to-one and is never reassigned, and no
\* credential ceases to exist.
C2_CredentialIffBoundRecord == CredentialBinding /\ NeverReassigned

C2_Witness ==
    \E p \in ProofIds :
        /\ ~Proofs[p].isValid
        /\ Proofs[p].nftTokenId \in TokenIds
        /\ Validated(p)

\* C3: validateProof(proofId, true) on a record that already has a
\* credential bound mints nothing: the credential counter, the record's
\* credentialId and the set of credentials are unchanged.
C3_RevalidateMintsNothing ==
    \A p \in ProofIds :
        (Validated(p) /\ Proofs[p].isValid
            /\ Before.proofCommitments[p].nftTokenId # 0) =>
            /\ reg.tokenIdCounter = Before.tokenIdCounter
            /\ Proofs[p].nftTokenId = Before.proofCommitments[p].nftTokenId
            /\ reg.owners = Before.owners
            /\ Len(lastTx.logs) = 1

C3_Witness ==
    \E p \in ProofIds :
        /\ Validated(p)
        /\ Before.proofCommitments[p].isValid
        /\ Proofs[p].isValid
        /\ Before.proofCommitments[p].nftTokenId # 0
        /\ reg.tokenIdCounter = reg.proofCounter

\* C4: validateProof(proofId, false) on a record with a credential bound
\* changes the record's valid flag and nothing else: the credential, the
\* record's credentialId and the credential counter stay.
C4_InvalidateKeepsCredential ==
    \A p \in ProofIds :
        (Validated(p) /\ ~Proofs[p].isValid
            /\ Before.proofCommitments[p].nftTokenId # 0) =>
            reg = [Before EXCEPT !.proofCommitments[p].isValid = FALSE]

C4_Witness ==
    \E p \in ProofIds :
        /\ Validated(p)
        /\ Before.proofCommitments[p].isValid
        /\ ~Proofs[p].isValid
        /\ Proofs[p].nftTokenId \in TokenIds
        /\ reg.owners[Proofs[p].nftTokenId] = Proofs[p].submitter

\* C5 as stated: the credential of a proof overridden to false is minted
\* only on the transition back to true, so a record whose flag is false has
\* no credential yet; and no record ever has more than one credential.
C5_MintedOnlyOnTransition ==
    /\ \A p \in ProofIds : ~Proofs[p].isValid => Proofs[p].nftTokenId = 0
    /\ \A t \in TokenIds :
           Cardinality({p \in ProofIds : Proofs[p].nftTokenId = t}) <= 1

\* C5 (amended): the credential of a proof is minted by submitProof, before
\* any override; setting the flag to false and back to true mints nothing,
\* and the record keeps the one credential it got when it was submitted.
C5_MintedAtSubmitOnly ==
    /\ \A p \in ProofIds : Proofs[p].nftTokenId # 0
    /\ \A p \in DOMAIN Before.proofCommitments :
           /\ Proofs[p].nftTokenId = Before.proofCommitments[p].nftTokenId
           /\ (~Before.proofCommitments[p].isValid /\ Proofs[p].isValid)
                  => reg.tokenIdCounter = Before.tokenIdCounter
    /\ reg.tokenIdCounter # Before.tokenIdCounter =>
           /\ lastTx.op = "submitProof"
           /\ lastTx.result = "ok"
           /\ reg.tokenIdCounter = Before.tokenIdCounter + 1
           /\ Proofs[lastTx.proofId].nftTokenId = reg.tokenIdCounter

C5_Witness ==
    \E p \in ProofIds :
        /\ Validated(p)
        /\ ~Before.proofCommitments[p].isValid
        /\ Proofs[p].isValid
        /\ Proofs[p].nftTokenId \in TokenIds
        /\ reg.tokenIdCounter = reg.proofCounter

\* C6: of two submitProof calls applied one after the other in the same
\* ledger state, in either order: when their commitments are equal (and not
\* yet stored) the first creates a record and the second fails with "Proof
\* already submitted"; when their commitments differ (and neither is stored)
\* both succeed.
C6_RaceOneWinner ==
    \A a, b \in SubmitCalls :
        LET first == Apply(reg, a)
            second == Apply(first.reg, b)
        IN  (EveryStorage /\ ~Stored(CommitmentOf(a)) /\ ~Stored(CommitmentOf(b))) =>
                /\ first.result = "ok"
                /\ first.reg.proofCounter = reg.proofCounter + 1
                /\ CommitmentOf(a) = CommitmentOf(b) =>
                       /\ second.result = "Proof already submitted"
                       /\ second.reg = first.reg
                /\ CommitmentOf(a) # CommitmentOf(b) =>
                       /\ second.result = "ok"
                       /\ second.reg.proofCounter = reg.proofCounter + 2

C6_Witness ==
    /\ lastTx.op = "submitProof"
    /\ lastTx.result = "Proof already submitted"
    /\ reg.proofCounter = 1
    /\ Proofs[1].timestamp = blockTimestamp

(***************************************************************************)
(* Properties of the tracker, checked under TrackerSpec.                   *)
(***************************************************************************)
Terminal(st) == st # Absent /\ st.status \in {"confirmed", "failed"}
IsPending(st) == st # Absent /\ st.status = "pending"
StatusAfter(h) == IF h \in DOMAIN pendingTransactions'
                  THEN pendingTransactions'[h] ELSE Absent
Active(h) == {c \in Callers : monitors[h][c] # "idle"}

\* C7: between two successive reads of getTransactionStatus for a handle,
\* the first of which returns a pending status, the confirmations value
\* does not decrease, whatever monitor steps happen in between.
C7_ConfirmationsNonDecreasing ==
    [][\A h \in Handles :
          (IsPending(getTransactionStatus(h)) /\ StatusAfter(h) # Absent) =>
              StatusAfter(h).confirmations
                  >= getTransactionStatus(h).confirmations]_vars

C7_Witness ==
    \E h \in Handles :
        /\ Terminal(getTransactionStatus(h))
        /\ getTransactionStatus(h).confirmations > 0
        /\ Active(h) = Callers

\* The call awaited by refreshStatus for h takes a step.
RefreshStep(h) == monitors'[h]["view"] # monitors[h]["view"]

\* C8: once the status of a handle is terminal, no refresh changes the
\* stored confirmations, whatever the ledger height has become.  Stated for
\* the refreshes that read the receipt again and store the same terminal
\* state: they store the same confirmations.
C8_FrozenOnceTerminal ==
    [][\A h \in Handles :
          (/\ Terminal(getTransactionStatus(h))
           /\ RefreshStep(h)
           /\ StatusAfter(h) # Absent
           /\ StatusAfter(h).status = getTransactionStatus(h).status
           /\ StatusAfter(h) # FailedStatus(h)
           /\ getTransactionStatus(h) # FailedStatus(h)) =>
              StatusAfter(h).confirmations
                  = getTransactionStatus(h).confirmations]_vars

\* C9: at most one monitoring call is in progress per handle.
C9_AtMostOneMonitor ==
    \A h \in Handles : Cardinality(Active(h)) <= 1

\* C10: once getTransactionStatus has returned a terminal status for a
\* handle, it never returns a pending status for that handle again.
C10_TerminalNeverPending ==
    \A h \in Handles :
        [](Terminal(getTransactionStatus(h))
               => [](~IsPending(getTransactionStatus(h))))

C10_Witness ==
    \E h \in Handles :
        /\ Terminal(getTransactionStatus(h))
        /\ monitors[h]["view"] = "getBlockNumber"
        /\ monitors[h]["submit"] = "idle"

\* The call of caller c on handle h returns in this step.
MonitorReturns(h, c) == monitors[h][c] # "idle" /\ monitors'[h][c] = "idle"

\* C11: terminal states are absorbing: a confirmed status never becomes
\* failed and a failed status never becomes confirmed, whatever a later
\* monitor or refresh does, one whose ledger query errors included.
C11_TerminalAbsorbing ==
    [][\A h \in Handles :
          (Terminal(getTransactionStatus(h)) /\ Terminal(StatusAfter(h))) =>
              StatusAfter(h).status = getTransactionStatus(h).status]_vars

\* C12: a ledger query of monitorTransaction that errors while the ledger
\* has reported no terminal outcome for the handle leaves the cached status
\* pending; the status is set to failed only when the ledger reports the
\* transaction reverted.
C12_ErrorLeavesPending ==
    [][\A h \in Handles :
          (/\ IsPending(getTransactionStatus(h))
           /\ StatusAfter(h) # Absent
           /\ StatusAfter(h).status = "failed") =>
              (Included(h) /\ txs[h].status = 0)]_vars

\* C13: getTransactionStatus returns null for a handle that was never
\* monitored, and whenever a monitorTransaction call on a handle returns,
\* getTransactionStatus of the handle is non-null and terminal.
C13_TerminalWhenMonitorReturns ==
    [][/\ \A h \in Handles :
             (h \notin DOMAIN txs \/ txs[h].kind # "proof") =>
                 getTransactionStatus(h) = Absent
       /\ \A h \in Handles, c \in Callers :
             MonitorReturns(h, c) => Terminal(StatusAfter(h))]_vars

\* C14: once a handle is confirmed and its monitor has gone through the
\* execution log of the inclusion block, which holds the mint event of the
\* handle, the cached status carries the token id of that event.
C14_StatusCarriesTokenId ==
    \A h \in Handles :
        (/\ Included(h)
         /\ txs[h].tokenId # 0
         /\ getTransactionStatus(h) # Absent
         /\ getTransactionStatus(h).status = "confirmed"
         /\ Active(h) = {}) =>
            /\ "nftTokenId" \in DOMAIN getTransactionStatus(h)
            /\ getTransactionStatus(h).nftTokenId = txs[h].tokenId

\* C15: a monitorTransaction call whose transaction the ledger does not
\* include ends all the same (with a timeout outcome), leaving the status
\* pending for a later refresh to resolve: every call in progress
\* eventually returns unless the ledger includes the transaction.
C15_MonitorEndsWithoutInclusion ==
    \A h \in Handles, c \in Callers :
        (monitors[h][c] # "idle") ~> (monitors[h][c] = "idle" \/ Included(h))

\* C16: for every handle returned by submitProofToBlockchain, once the
\* ledger has included the submission, and with every ledger query
\* succeeding and no further caller action, the cached status of the handle
\* eventually becomes terminal.
C16_EventuallyTerminal ==
    \A h \in Handles :
        (h \in DOMAIN pendingTransactions /\ Included(h))
            ~> Terminal(getTransactionStatus(h))

(***************************************************************************)
(* Registry: rejected calls and the submit path.                           *)
(***************************************************************************)
EmptyInput == {"Event ID cannot be empty", "Proof data cannot be empty"}
Unauthorized == "Ownable: caller is not the owner"
InvalidProofId == "Invalid proof ID"

\* The proof ids outside 1 .. proofCounter that are tried.
OutOfRange == {0, reg.proofCounter + 1, reg.proofCounter + 2}

\* C17: submitProof with an empty eventId or an empty proofData is
\* rejected and leaves the whole registry state unchanged: no record, no
\* counter advance, no event.
C17_EmptyInputRejected ==
    /\ \A sender \in Addresses, timestamp \in 1 .. MaxTime,
          eventId \in EventIds, proofData \in ProofDatas :
           (EveryStorage /\ (eventId = <<>> \/ proofData = <<>>)) =>
               LET out == submitProof(reg, sender, timestamp, eventId, proofData)
               IN  /\ out.result \in EmptyInput
                   /\ out.reg = reg
                   /\ out.logs = <<>>
    /\ (lastTx.op = "submitProof" /\ lastTx.result \in EmptyInput) =>
           /\ reg = Before
           /\ lastTx.logs = <<>>

C17_Witness ==
    /\ lastTx.op = "submitProof"
    /\ lastTx.result = "Proof data cannot be empty"
    /\ reg.proofCounter = 1
    /\ reg.tokenIdCounter = 1

\* C18: accept-and-mint is atomic: right after a successful submitProof the
\* new record is valid and bound to a credential minted by that call and
\* owned by the submitter, and no reachable state has a valid record
\* without a credential.
C18_AcceptAndMintAtomic ==
    /\ \A p \in ProofIds :
           Proofs[p].isValid => Proofs[p].nftTokenId \in TokenIds
    /\ (lastTx.op = "submitProof" /\ lastTx.result = "ok") =>
           LET p == lastTx.proofId
           IN  /\ p = Before.proofCounter + 1
               /\ p \in ProofIds
               /\ Proofs[p].isValid
               /\ Proofs[p].nftTokenId = Before.tokenIdCounter + 1
               /\ Proofs[p].nftTokenId \notin DOMAIN Before.owners
               /\ Proofs[p].nftTokenId \in TokenIds
               /\ reg.owners[Proofs[p].nftTokenId] = Proofs[p].submitter
               /\ reg.tokenIdCounter = Proofs[p].nftTokenId

C18_Witness ==
    /\ lastTx.op = "submitProof"
    /\ lastTx.result = "ok"
    /\ lastTx.proofId = 2
    /\ Proofs[2].submitter = "alice"
    /\ reg.owners[Proofs[2].nftTokenId] = "alice"
    /\ ~Proofs[1].isValid

\* C19: validateProof and setEventMetadata called by an account other than
\* the owner fail with the unauthorized error and leave every proof record,
\* every credential and all event metadata unchanged.
C19_UnauthorizedRejected ==
    /\ \A sender \in IF EveryStorage THEN Addresses \ {Owner} ELSE {} :
           /\ \A proofId \in 0 .. reg.proofCounter + 1, isValid \in BOOLEAN :
                  LET out == validateProof(reg, sender, proofId, isValid)
                  IN  /\ out.result = Unauthorized
                      /\ out.reg = reg
                      /\ out.logs = <<>>
           /\ \A eventId \in EventIds, metadata \in MetadataInputs :
                  LET out == setEventMetadata(reg, sender, eventId, metadata)
                  IN  /\ out.result = Unauthorized
                      /\ out.reg = reg
                      /\ out.logs = <<>>
    /\ lastTx.result = Unauthorized =>
           /\ lastTx.op \in {"validateProof", "setEventMetadata"}
           /\ reg = Before
           /\ lastTx.logs = <<>>

C19_Witness ==
    /\ lastTx.op = "setEventMetadata"
    /\ lastTx.result = Unauthorized
    /\ reg.proofCounter >= 1
    /\ reg.eventMetadata # <<>>

\* C20 as stated: validateProof and getProof with a proofId that is 0 or
\* greater than the number of accepted proofs fail with the invalid-proof-id
\* error, whoever calls, and validateProof then changes nothing.
C20_InvalidIdRejected ==
    \A proofId \in IF EveryStorage THEN OutOfRange ELSE {} :
        /\ getProof(reg, proofId).result = InvalidProofId
        /\ \A sender \in Addresses, isValid \in BOOLEAN :
               LET out == validateProof(reg, sender, proofId, isValid)
               IN  /\ out.result = InvalidProofId
                   /\ out.reg = reg
                   /\ out.logs = <<>>

\* C20 (amended): getProof, and validateProof called by the owner, with a
\* proofId that is 0 or greater than the number of accepted proofs fail with
\* the invalid-proof-id error; validateProof called by anyone else with such
\* an id fails with the unauthorized error instead; either way validateProof
\* changes no record and mints no credential.
C20_InvalidIdRejectedForOwner ==
    /\ \A proofId \in IF EveryStorage THEN OutOfRange ELSE {} :
           /\ getProof(reg, proofId).result = InvalidProofId
           /\ \A sender \in Addresses, isValid \in BOOLEAN :
                  LET out == validateProof(reg, sender, proofId, isValid)
                  IN  /\ out.result = IF sender = Owner THEN InvalidProofId
                                      ELSE Unauthorized
                      /\ out.reg = reg
                      /\ out.logs = <<>>
    /\ \A proofId \in ProofIds : getProof(reg, proofId).result = "ok"
    /\ lastTx.result = InvalidProofId =>
           /\ lastTx.op = "validateProof"
           /\ reg = Before
           /\ lastTx.logs = <<>>

C20_Witness ==
    /\ lastTx.op = "validateProof"
    /\ lastTx.result = InvalidProofId
    /\ reg.proofCounter = 2
    /\ getProof(reg, 2).result = "ok"
    /\ getProof(reg, 3).result = InvalidProofId

\* The record a credential is bound to.
ProofOf(t) == CHOOSE p \in ProofIds : Proofs[p].nftTokenId = t

\* C21: setEventMetadata never changes the token URI of a credential that
\* was already minted: a credential gets the image reference its event has
\* when it is minted (none if the event has no metadata then) and keeps it
\* whatever metadata is set for the event afterwards.
C21_TokenUriFixedAtMint ==
    /\ \A t \in DOMAIN Before.tokenURIs :
           /\ t \in DOMAIN reg.tokenURIs
           /\ reg.tokenURIs[t] = Before.tokenURIs[t]
    /\ \A t \in DOMAIN reg.tokenURIs \ DOMAIN Before.tokenURIs :
           reg.tokenURIs[t]
               = EventMetadata(Before, Proofs[ProofOf(t)].eventId).imageUri
    /\ \A eventId \in EventIds, metadata \in MetadataInputs :
           EveryStorage =>
               setEventMetadata(reg, Owner, eventId, metadata).reg.tokenURIs
                   = reg.tokenURIs

C21_Witness ==
    /\ lastTx.op = "setEventMetadata"
    /\ lastTx.result = "ok"
    /\ \E t \in TokenIds :
           /\ reg.tokenURIs[t] = ""
           /\ Proofs[ProofOf(t)].eventId = <<"a">>
    /\ \E t \in TokenIds :
           /\ reg.tokenURIs[t] = "img1"
           /\ EventMetadata(reg, Proofs[ProofOf(t)].eventId).imageUri = ""

\* C22: hasValidProofForEvent(user, eventId) is true if and only if some
\* stored record has that submitter, that eventId and valid = true, whether
\* or not the record has a credential.
C22_HasValidIffValidRecord ==
    \A user \in Addresses, eventId \in EventIds :
        hasValidProofForEvent(reg, user, eventId)
            <=> \E p \in ProofIds : /\ Proofs[p].submitter = user
                                    /\ Proofs[p].eventId = eventId
                                    /\ Proofs[p].isValid

C22_Witness ==
    \E p, q \in ProofIds :
        /\ Proofs[p].submitter = Proofs[q].submitter
        /\ Proofs[p].eventId # Proofs[q].eventId
        /\ ~Proofs[p].isValid
        /\ Proofs[q].isValid
        /\ ~hasValidProofForEvent(reg, Proofs[p].submitter, Proofs[p].eventId)
        /\ hasValidProofForEvent(reg, Proofs[q].submitter, Proofs[q].eventId)

\* The NFTMinted events of a receipt.
Mints(logs) == {i \in 1 .. Len(logs) : logs[i].event = "NFTMinted"}

\* C23: mint is never invoked on a record whose credentialId is already
\* set: no submitProof or validateProof by any caller ends in the
\* already-minted fault, mints for a record that had a credential, or
\* overwrites a record's credentialId.
C23_NeverMintsTwice ==
    /\ lastTx.result # "ERC721: token already minted"
    /\ \A i \in Mints(lastTx.logs) :
           LET p == lastTx.logs[i].proofId
           IN  /\ p \in ProofIds
               /\ p \in DOMAIN Before.proofCommitments =>
                      Before.proofCommitments[p].nftTokenId = 0
               /\ Proofs[p].nftTokenId = lastTx.logs[i].tokenId
    /\ \A sender \in Addresses, p \in ProofIds, isValid \in BOOLEAN :
           LET out == validateProof(reg, sender, p, isValid)
           IN  (EveryStorage /\ Proofs[p].nftTokenId # 0) =>
                   /\ Mints(out.logs) = {}
                   /\ out.result # "ERC721: token already minted"
                   /\ out.reg.proofCommitments[p].nftTokenId = Proofs[p].nftTokenId

C23_Witness ==
    /\ lastTx.op = "validateProof"
    /\ lastTx.result = "ok"
    /\ Mints(lastTx.logs) = {}
    /\ \E p \in ProofIds :
           /\ lastTx.proofId = p
           /\ ~Before.proofCommitments[p].isValid
           /\ Proofs[p].isValid
           /\ Proofs[p].nftTokenId = 1
    /\ reg.tokenIdCounter = 2

\* The ledger after one more submitProof, sent at `timestamp`.
ApplyAt(R, call, timestamp) ==
    submitProof(R, call.sender, timestamp, call.eventId, call.proofData)

\* C25: the same (eventId, proofData, submitter) submitted at two different
\* times gives two different commitments, and both submissions are accepted
\* as distinct records, each with a credential of its own.
C25_ResubmitLaterAccepted ==
    \A call \in IF EveryStorage THEN SubmitCalls ELSE {} :
        \A t1 \in blockTimestamp .. MaxTime + 1 :
        \A t2 \in t1 + 1 .. MaxTime + 2 :
            LET c1 == Commitment(call.eventId, call.proofData, call.sender, t1)
                c2 == Commitment(call.eventId, call.proofData, call.sender, t2)
            IN  /\ c1 # c2
                /\ (~Stored(c1) /\ ~Stored(c2)) =>
                       \A first \in {ApplyAt(reg, call, t1)} :
                       \A second \in {ApplyAt(first.reg, call, t2)} :
                       \A records \in {second.reg.proofCommitments} :
                           /\ first.result = "ok"
                           /\ second.result = "ok"
                           /\ first.ret # second.ret
                           /\ records[first.ret].commitment = c1
                           /\ records[second.ret].commitment = c2
                           /\ records[first.ret].nftTokenId # 0
                           /\ records[second.ret].nftTokenId # 0
                           /\ records[first.ret].nftTokenId
                                  # records[second.ret].nftTokenId

C25_Witness ==
    /\ lastTx.op = "submitProof"
    /\ lastTx.result = "ok"
    /\ \E p, q \in ProofIds :
           /\ p < q
           /\ lastTx.proofId = q
           /\ Proofs[p].submitter = Proofs[q].submitter
           /\ Proofs[p].commitment.keccak.dyn = Proofs[q].commitment.keccak.dyn
           /\ Proofs[p].timestamp < Proofs[q].timestamp
           /\ Proofs[p].nftTokenId # Proofs[q].nftTokenId

\* C26: a stored record is never deleted and its id, commitment, eventId,
\* submitter and timestamp never change after creation; only validateProof
\* changes a stored record, and it changes only the valid flag and, when it
\* mints, the credentialId.
C26_RecordImmutable ==
    /\ \A p \in DOMAIN Before.proofCommitments :
           LET old == Before.proofCommitments[p]
           IN  /\ p \in ProofIds
               /\ Proofs[p].commitment = old.commitment
               /\ Proofs[p].eventId = old.eventId
               /\ Proofs[p].submitter = old.submitter
               /\ Proofs[p].timestamp = old.timestamp
               /\ CommitmentToProofId(reg, old.commitment) = p
               /\ Proofs[p].nftTokenId # old.nftTokenId =>
                      /\ old.nftTokenId = 0
                      /\ Mints(lastTx.logs) # {}
               /\ Proofs[p] # old =>
                      /\ lastTx.op = "validateProof"
                      /\ lastTx.result = "ok"
                      /\ lastTx.proofId = p
    /\ \A p \in ProofIds : CommitmentToProofId(reg, Proofs[p].commitment) = p

C26_Witness ==
    /\ lastTx.op = "validateProof"
    /\ lastTx.result = "ok"
    /\ Len(Proofs) = 2
    /\ \E p \in ProofIds :
           /\ Proofs[p] # Before.proofCommitments[p]
           /\ Proofs[p] = [Before.proofCommitments[p] EXCEPT !.isValid = ~@]

(***************************************************************************)
(* Tracker: retention and what the monitor writes.                         *)
(***************************************************************************)
\* The call of caller c on h, suspended at one of `positions`, takes a step.
MonitorStepFrom(h, c, positions) ==
    monitors[h][c] \in positions /\ monitors'[h][c] # monitors[h][c]

\* The write builds the status from the receipt.
ReceiptWrite(h) ==
    /\ \E c \in Callers : /\ monitors[h][c] = "getBlockNumber"
                          /\ monitors'[h][c] # "getBlockNumber"
    /\ StatusAfter(h) # Absent
    /\ "blockNumber" \in DOMAIN StatusAfter(h)

\* C24 as stated: no operation of the tracker makes getTransactionStatus
\* return null for a handle for which it returned a status before.
C24_RetainedForever ==
    [][\A h \in Handles :
          getTransactionStatus(h) # Absent => StatusAfter(h) # Absent]_vars

\* C24 (amended): the only operation of the tracker that makes
\* getTransactionStatus return null for a handle that had a status is
\* clearTransactionHistory, which drops every entry at once; submitting and
\* monitoring never remove an entry.
C24_RetainedUntilCleared ==
    [][\A h \in Handles :
          (getTransactionStatus(h) # Absent /\ StatusAfter(h) = Absent) =>
              /\ pendingTransactions' = <<>>
              /\ UNCHANGED <<provider, contract, txs, blockNumber, monitors>>]_vars

C24_Witness ==
    /\ pendingTransactions = <<>>
    /\ \E h \in Handles :
           /\ Included(h)
           /\ txs[h].kind = "proof"
           /\ Active(h) = {}

\* C27: refresh is idempotent: with a terminal status stored for the handle
\* by a finished monitorTransaction call at the present ledger state, the
\* call of a refresh, the ledger unchanged, leaves the cached status as it
\* is.  Stated for the steps of the refresh up to its own write.
C27_RefreshIdempotent ==
    [][\A h \in Handles :
          LET st == getTransactionStatus(h)
          IN  (/\ Terminal(st)
               /\ "blockNumber" \in DOMAIN st
               /\ st.confirmations = blockNumber - st.blockNumber + 1
               /\ monitors[h]["submit"] = "idle"
               /\ UNCHANGED <<txs, blockNumber>>
               /\ MonitorStepFrom(h, "view",
                                  {"getTransaction", "wait", "getBlockNumber"})) =>
                  StatusAfter(h) = st]_vars

\* C29: when monitorTransaction writes a terminal status from a receipt,
\* confirmations = current height - inclusion height + 1, so at least 1
\* whenever the current height is not below the inclusion height.
C29_ConfirmationsFromHeights ==
    [][\A h \in Handles :
          ReceiptWrite(h) =>
              /\ Terminal(StatusAfter(h))
              /\ StatusAfter(h).blockNumber = txs[h].blockNumber
              /\ StatusAfter(h).confirmations
                     = blockNumber - txs[h].blockNumber + 1
              /\ blockNumber >= txs[h].blockNumber =>
                     StatusAfter(h).confirmations >= 1]_vars

C29_Witness ==
    \E h \in Handles :
        /\ Terminal(getTransactionStatus(h))
        /\ "blockNumber" \in DOMAIN getTransactionStatus(h)
        /\ getTransactionStatus(h).blockNumber = 2
        /\ getTransactionStatus(h).confirmations = 2
        /\ blockNumber = 3

\* C30: the terminal state monitorTransaction writes matches the execution
\* outcome the ledger reports for the transaction: confirmed if and only
\* if the receipt reports success, failed if it reports a revert.  Stated
\* for the steps of a call that holds the receipt.
C30_StateMatchesReceipt ==
    [][\A h \in Handles :
          (/\ \E c \in Callers :
                  MonitorStepFrom(h, c, {"getBlockNumber", "queryFilter"})
           /\ Terminal(StatusAfter(h))) =>
              /\ StatusAfter(h).status = "confirmed" <=> txs[h].status = 1
              /\ txs[h].status = 0 => StatusAfter(h).status = "failed"]_vars

(***************************************************************************)
(* Events, identifiers and indexes of the registry, checked under Spec.    *)
(***************************************************************************)
\* How often x occurs in the sequence seq.
Occurrences(seq, x) == Cardinality({i \in 1 .. Len(seq) : seq[i] = x})

\* C31: a committed submitProof leaves exactly two events in its receipt:
\* first one ProofSubmitted carrying the new proof id and the commitment,
\* event id and submitter of the record stored under it, then one NFTMinted
\* carrying the credential bound to that record, the same proof id, the
\* credential's owner and the same event id.  A reverted submitProof leaves
\* no event and no change of storage.
C31_SubmitEvents ==
    lastTx.op = "submitProof" =>
        IF lastTx.result = "ok"
        THEN LET p == lastTx.proofId
             IN  /\ p \in ProofIds \ DOMAIN Before.proofCommitments
                 /\ Proofs[p].nftTokenId \in TokenIds \ DOMAIN Before.owners
                 /\ lastTx.logs =
                        <<[event |-> "ProofSubmitted", proofId |-> p,
                           commitment |-> Proofs[p].commitment,
                           eventId |-> Proofs[p].eventId,
                           submitter |-> Proofs[p].submitter],
                          [event |-> "NFTMinted",
                           tokenId |-> Proofs[p].nftTokenId, proofId |-> p,
                           recipient |-> reg.owners[Proofs[p].nftTokenId],
                           eventId |-> Proofs[p].eventId]>>
        ELSE lastTx.logs = <<>> /\ reg = Before

C31_Witness ==
    /\ lastTx.op = "submitProof"
    /\ lastTx.result = "ok"
    /\ Len(lastTx.logs) = 2
    /\ lastTx.logs[1].proofId = 2
    /\ lastTx.logs[1].submitter = "alice"
    /\ lastTx.logs[2].tokenId = 2
    /\ lastTx.logs[2].recipient = "alice"

\* C32: proof ids are handed out consecutively from 1 in the order of
\* acceptance: a committed submitProof returns one more than the number of
\* records stored before it and stores its record under that id, a reverted
\* submitProof consumes no id, no other call changes the count, and
\* getTotalProofs equals the number of stored records.
C32_ConsecutiveProofIds ==
    /\ getTotalProofs(reg) = Cardinality(ProofIds)
    /\ ProofIds = 1 .. getTotalProofs(reg)
    /\ IF lastTx.op = "submitProof" /\ lastTx.result = "ok"
       THEN /\ lastTx.proofId = Len(Before.proofCommitments) + 1
            /\ getTotalProofs(reg) = lastTx.proofId
            /\ \A p \in DOMAIN Before.proofCommitments :
                   Proofs[p].commitment = Before.proofCommitments[p].commitment
       ELSE /\ getTotalProofs(reg) = getTotalProofs(Before)
            /\ ProofIds = DOMAIN Before.proofCommitments

C32_Witness ==
    /\ lastTx.op = "submitProof"
    /\ lastTx.result = "Proof already submitted"
    /\ getTotalProofs(reg) = 1
    /\ getTotalProofs(Before) = 1

\* C33: credential ids are 1 .. getTotalNFTs: a mint allocates one more than
\* the number of credentials minted before it, an id that was not in use,
\* every credential is bound to exactly one proof record, and getTotalNFTs
\* equals the number of credentials minted.
C33_ConsecutiveCredentialIds ==
    /\ getTotalNFTs(reg) = Cardinality(TokenIds)
    /\ TokenIds = 1 .. getTotalNFTs(reg)
    /\ \A t \in TokenIds :
           Cardinality({p \in ProofIds : Proofs[p].nftTokenId = t}) = 1
    /\ \A i \in Mints(lastTx.logs) :
           /\ lastTx.logs[i].tokenId = getTotalNFTs(Before) + 1
           /\ lastTx.logs[i].tokenId \notin DOMAIN Before.owners
           /\ getTotalNFTs(reg) = lastTx.logs[i].tokenId
    /\ Mints(lastTx.logs) = {} => getTotalNFTs(reg) = getTotalNFTs(Before)

C33_Witness ==
    /\ getTotalNFTs(reg) = 2
    /\ \E i \in Mints(lastTx.logs) : lastTx.logs[i].tokenId = 2
    /\ ProofOf(1) # ProofOf(2)

C36_EveryRecordHasCredential ==
    /\ \A p \in ProofIds : Proofs[p].nftTokenId \in TokenIds
    /\ getTotalNFTs(reg) = getTotalProofs(reg)
    /\ lastTx.op = "validateProof" =>
           /\ Mints(lastTx.logs) = {}
           /\ getTotalNFTs(reg) = getTotalNFTs(Before)
           /\ reg.owners = Before.owners

C36_Witness ==
    /\ lastTx.op = "validateProof"
    /\ lastTx.result = "ok"
    /\ ~Before.proofCommitments[lastTx.proofId].isValid
    /\ Proofs[lastTx.proofId].isValid
    /\ getTotalNFTs(reg) = 2
    /\ getTotalProofs(reg) = 2

\* C40: the commitment index maps a commitment to a nonzero id exactly when
\* the record stored under that id has that commitment, and every accepted
\* proof id occurs exactly once in the list of its submitter, exactly once
\* in the list of its event, and in no other list.
C40_IndexesAgree ==
    /\ \A c \in DOMAIN reg.commitmentToProofId :
           /\ reg.commitmentToProofId[c] \in ProofIds
           /\ Proofs[reg.commitmentToProofId[c]].commitment = c
    /\ \A p \in ProofIds :
           /\ CommitmentToProofId(reg, Proofs[p].commitment) = p
           /\ \A user \in Addresses :
                  Occurrences(getUserProofs(reg, user), p)
                      = IF user = Proofs[p].submitter THEN 1 ELSE 0
           /\ \A eventId \in EventIds :
                  Occurrences(getEventProofs(reg, eventId), p)
                      = IF eventId = Proofs[p].eventId THEN 1 ELSE 0
    /\ \A user \in Addresses :
           \A i \in 1 .. Len(getUserProofs(reg, user)) :
               getUserProofs(reg, user)[i] \in ProofIds
    /\ \A eventId \in EventIds :
           \A i \in 1 .. Len(getEventProofs(reg, eventId)) :
               getEventProofs(reg, eventId)[i] \in ProofIds

C40_Witness ==
    /\ getEventProofs(reg, <<"a">>) = <<1, 2>>
    /\ getUserProofs(reg, "alice") = <<2>>
    /\ getUserProofs(reg, Owner) = <<1>>
    /\ CommitmentToProofId(reg, Proofs[2].commitment) = 2

(***************************************************************************)
(* The status map and its entries, checked under TrackerSpec.              *)
(***************************************************************************)
\* st is a record monitorTransaction builds for h from the receipt of h and
\* one height of the ledger read after the inclusion: all six fields, all
\* from the same receipt.
WholeReceiptRecord(h, st) ==
    /\ Included(h)
    /\ DOMAIN st = {"hash", "status", "confirmations", "gasUsed",
                    "effectiveGasPrice", "blockNumber"}
    /\ st.hash = h
    /\ st.status = IF txs[h].status = 1 THEN "confirmed" ELSE "failed"
    /\ st.blockNumber = txs[h].blockNumber
    /\ st.gasUsed = GasUsed
    /\ st.effectiveGasPrice = GasPrice
    /\ \E height \in txs[h].blockNumber .. blockNumber :
           st.confirmations = height - txs[h].blockNumber + 1

\* C35: whatever monitorTransaction calls for a handle are in progress, and
\* wherever they are, getTransactionStatus returns null, the pending record
\* of the submission, the failed record of one catch block, or one whole
\* record built from the receipt; never a mixture of two writes.
C35_NoPartialStatus ==
    \A h \in Handles :
        LET st == getTransactionStatus(h)
        IN  \/ st = Absent
            \/ st = [hash |-> h, status |-> "pending", confirmations |-> 0]
            \/ st = [hash |-> h, status |-> "failed", confirmations |-> 0]
            \/ WholeReceiptRecord(h, st)

C35_Witness ==
    \E h \in Handles :
        /\ WholeReceiptRecord(h, getTransactionStatus(h))
        /\ getTransactionStatus(h).confirmations = 1
        /\ blockNumber > txs[h].blockNumber
        /\ monitors[h]["submit"] = "queryFilter"
        /\ monitors[h]["view"] = "getBlockNumber"

C38_GroupSubmitRegistersNothing ==
    [][\A h \in Handles :
          (h \notin DOMAIN txs /\ h \in DOMAIN txs') =>
              IF txs'[h].kind = "group"
              THEN /\ pendingTransactions' = pendingTransactions
                   /\ monitors' = monitors
                   /\ StatusAfter(h) = Absent
              ELSE /\ StatusAfter(h) = PendingStatus(h)
                   /\ {c \in Callers : monitors'[h][c] # "idle"} = {"submit"}
                   /\ \A k \in Handles \ {h} :
                          /\ StatusAfter(k) = getTransactionStatus(k)
                          /\ monitors'[k] = monitors[k]]_vars

C38_Witness ==
    \E h, k \in Handles :
        /\ Included(h)
        /\ txs[h].kind = "group"
        /\ getTransactionStatus(h) = Absent
        /\ Active(h) = {}
        /\ Included(k)
        /\ txs[k].kind = "proof"
        /\ Terminal(getTransactionStatus(k))

\* C39: a stored pending status has confirmations 0 and neither gasUsed nor
\* effectiveGasPrice nor blockNumber, and a stored status with confirmations
\* above 0 is confirmed or failed.
C39_PendingHasNoReceiptFields ==
    \A h \in Handles :
        LET st == getTransactionStatus(h)
        IN  /\ IsPending(st) =>
                   /\ st.confirmations = 0
                   /\ DOMAIN st = {"hash", "status", "confirmations"}
            /\ (st # Absent /\ st.confirmations > 0) => Terminal(st)

C39_Witness ==
    \E h, k \in Handles :
        /\ IsPending(getTransactionStatus(h))
        /\ Active(h) # {}
        /\ Terminal(getTransactionStatus(k))
        /\ getTransactionStatus(k).confirmations = 2

=============================================================================
